---- MODULE Spec2Model ----
(***************************************************************************)
(* The Langfuse tracing bridge of haystack-core-integrations               *)
(* (integrations/langfuse/.../tracing/langfuse/tracer.py): LangfuseSpan,   *)
(* SpanContext, DefaultSpanHandler and LangfuseTracer.                     *)
(*                                                                         *)
(* Python values are records tagged by their type (field t).  A dict is a  *)
(* function on its key set; the tags dict handed to trace is a sequence of *)
(* <<key, value>> pairs, because set_tags walks it in insertion order.     *)
(* A span object is its index in spans (0 stands for None).  Every call    *)
(* into the Langfuse client may raise; which one does is an input of the   *)
(* action that makes the call.                                             *)
(***************************************************************************)
EXTENDS Integers, Sequences, FiniteSets, TLC

\* ------------------------------------------------------------------ bounds

\* calls made on the tracer in one run: trace invocations and flush calls
MaxCalls == 2
\* calls applied to the twin spans of SpecTags
MaxTwinOps == 2

\* --------------------------------------------------------------- constants

_SUPPORTED_GENERATORS ==
    { "AzureOpenAIGenerator", "OpenAIGenerator", "AnthropicGenerator",
      "HuggingFaceAPIGenerator", "HuggingFaceLocalGenerator",
      "CohereGenerator", "OllamaGenerator" }

_SUPPORTED_CHAT_GENERATORS ==
    { "AzureOpenAIChatGenerator", "OpenAIChatGenerator",
      "AnthropicChatGenerator", "HuggingFaceAPIChatGenerator",
      "HuggingFaceLocalChatGenerator", "CohereChatGenerator",
      "OllamaChatGenerator", "GoogleGenAIChatGenerator" }

_ALL_SUPPORTED_GENERATORS == _SUPPORTED_GENERATORS \cup _SUPPORTED_CHAT_GENERATORS

_PIPELINE_INPUT_KEY == "haystack.pipeline.input_data"
_PIPELINE_OUTPUT_KEY == "haystack.pipeline.output_data"
_COMPONENT_NAME_KEY == "haystack.component.name"
_COMPONENT_TYPE_KEY == "haystack.component.type"
_COMPONENT_OUTPUT_KEY == "haystack.component.output"
_COMPONENT_INPUT_KEY == "haystack.component.input"

\* ------------------------------------------------------------ Python values

None == [t |-> "None"]
Str(s) == [t |-> "str", s |-> s]
IntV(n) == [t |-> "int", n |-> n]
\* a dict, given by its items in the order they were inserted: k holds the
\* keys in insertion order (a key set again keeps its place and takes the new
\* value), d maps each key to its value
RECURSIVE ItemKeys(_, _)
ItemKeys(items, seen) ==
    IF items = <<>> THEN <<>>
    ELSE IF items[1][1] \in seen THEN ItemKeys(Tail(items), seen)
    ELSE <<items[1][1]>> \o ItemKeys(Tail(items), seen \cup {items[1][1]})
ItemValue(items, key) ==
    items[CHOOSE i \in DOMAIN items :
            items[i][1] = key /\ \A j \in DOMAIN items : items[j][1] = key => j <= i][2]
Dict(items) ==
    [t |-> "dict", k |-> ItemKeys(items, {}),
     d |-> [key \in {items[i][1] : i \in DOMAIN items} |-> ItemValue(items, key)]]
List(l) == [t |-> "list", l |-> l]
\* haystack.dataclasses.ChatMessage: its meta (a dict) and the tool names of its tool calls
ChatMessage(meta, tool_calls) == [t |-> "ChatMessage", meta |-> meta, tool_calls |-> tool_calls]

\* Python truthiness: `not x`, `if x:`, `x or y`
Truthy(v) ==
    CASE v.t = "None" -> FALSE
      [] v.t = "str" -> v.s # ""
      [] v.t = "int" -> v.n # 0
      [] v.t = "dict" -> DOMAIN v.d # {}
      [] v.t = "list" -> v.l # <<>>
      [] OTHER -> TRUE

\* dict.get(k, default) and d[k] = v on a dict held as a function
DictGet(d, k, default) == IF k \in DOMAIN d THEN d[k] ELSE default
DictSet(d, k, v) == [x \in (DOMAIN d) \cup {k} |-> IF x = k THEN v ELSE d[x]]
EmptyDict == [x \in {} |-> None]

\* tags.get(k, default) on the tags dict of trace, held as <<key, value>> pairs
TagsGet(tags, k, default) ==
    IF \E i \in DOMAIN tags : tags[i][1] = k
    THEN tags[CHOOSE i \in DOMAIN tags : tags[i][1] = k][2]
    ELSE default

\* tracing_utils.coerce_tag_value: primitives as they are, None as the empty
\* string, everything else serialised to a JSON string
coerce_tag_value(v) ==
    CASE v.t \in {"str", "int"} -> v
      [] v.t = "None" -> Str("")
      [] OTHER -> [t |-> "json", of |-> v]

\* the tag keys the model draws; key.endswith(".input") and key.endswith(".output")
Keys ==
    { _PIPELINE_INPUT_KEY, _PIPELINE_OUTPUT_KEY, _COMPONENT_NAME_KEY,
      _COMPONENT_TYPE_KEY, _COMPONENT_OUTPUT_KEY, _COMPONENT_INPUT_KEY }
EndsWith(s, suffix) ==
    Len(s) >= Len(suffix) /\ SubSeq(s, Len(s) - Len(suffix) + 1, Len(s)) = suffix
EndsWithInput(key) == EndsWith(key, ".input")
EndsWithOutput(key) == EndsWith(key, ".output")

\* one call into the Langfuse client (or a marker of a tracer step), as logged
\* in events: what was called, on which span, with what, and whether it raised
Event(ev, span, args, raised) == [ev |-> ev, span |-> span, args |-> args, raised |-> raised]

\* ------------------------------------------------------------- SpanContext

\* SpanContextError with the check of the name left out
SpanContextError_NoNameCheck(context) ==
    IF ~Truthy(context.operation_name) THEN "Operation name cannot be empty"
    ELSE IF ~Truthy(context.trace_name) THEN "Trace name cannot be empty"
    ELSE ""

\* SpanContext.__post_init__: the message of the ValueError raised, "" when
\* the context is valid
SpanContextError(context) ==
    IF ~Truthy(context.name) THEN "Span name cannot be empty"
    ELSE IF ~Truthy(context.operation_name) THEN "Operation name cannot be empty"
    ELSE IF ~Truthy(context.trace_name) THEN "Trace name cannot be empty"
    ELSE ""

\* ------------------------------------------------------------ LangfuseSpan

\* [m.to_openai_dict_format(...) for m in l]: the comprehension walks l, so a
\* value that cannot be iterated (None, a number, a ChatMessage) is a
\* TypeError, an empty list, str or dict yields the empty list, and an element
\* that is no ChatMessage (an element of a list, a character of a str, a key
\* of a dict) has no such method
ToOpenAI(l) ==
    CASE l.t = "list" ->
            IF \A i \in DOMAIN l.l : l.l[i].t = "ChatMessage"
            THEN [exc |-> "", v |-> List([i \in DOMAIN l.l |-> [t |-> "openai", of |-> l.l[i]]])]
            ELSE [exc |-> "AttributeError", v |-> None]
      [] l.t \in {"str", "dict"} ->
            IF ~Truthy(l) THEN [exc |-> "", v |-> List(<<>>)]
            ELSE [exc |-> "AttributeError", v |-> None]
      [] OTHER -> [exc |-> "TypeError", v |-> None]

\* name occurs in s as a substring
IsSubstring(name, s) ==
    \E i \in 0..(Len(s) - Len(name)) : SubSeq(s, i + 1, i + Len(name)) = name

\* `name in value`: key membership for a dict, element membership for a list,
\* the substring test for a str, a TypeError for a value that is no container
Contains(value, name) ==
    CASE value.t = "dict" -> [exc |-> "", b |-> name \in DOMAIN value.d]
      [] value.t = "list" -> [exc |-> "", b |-> \E i \in DOMAIN value.l : value.l[i] = Str(name)]
      [] value.t = "str" -> [exc |-> "", b |-> IsSubstring(name, value.s)]
      [] OTHER -> [exc |-> "TypeError", b |-> FALSE]

\* set_tag keeping the value a key already has in the cache
set_tag_KeepFirst(data, key, value, update_raises) ==
    LET call == Event("update", 0, [metadata |-> [k \in {key} |-> coerce_tag_value(value)]], update_raises)
    IN IF update_raises
       THEN [data |-> data, calls |-> <<call>>, exc |-> "UpdateError"]
       ELSE [data |-> IF key \in DOMAIN data THEN data ELSE DictSet(data, key, value),
             calls |-> <<call>>, exc |-> ""]

\* LangfuseSpan.set_tag on a span whose cache is data; update_raises: the
\* backend update call raises.  Yields the cache after the call, the backend
\* calls made and the exception that leaves the method ("" for none).
set_tag(data, key, value, update_raises) ==
    LET call == Event("update", 0, [metadata |-> [k \in {key} |-> coerce_tag_value(value)]], update_raises)
    IN IF update_raises
       THEN [data |-> data, calls |-> <<call>>, exc |-> "UpdateError"]
       ELSE [data |-> DictSet(data, key, value), calls |-> <<call>>, exc |-> ""]

\* the value set_content_tag forwards to the backend for an .input key
ContentInput(value) ==
    LET has == Contains(value, "messages")
    IN IF has.exc # "" THEN [exc |-> has.exc, v |-> None]
       ELSE IF has.b THEN
            (IF value.t = "dict" THEN ToOpenAI(value.d["messages"])
             ELSE [exc |-> "TypeError", v |-> None])
       ELSE [exc |-> "", v |-> coerce_tag_value(value)]

\* the value set_content_tag forwards to the backend for an .output key
ContentOutput(value) ==
    LET has == Contains(value, "replies")
    IN IF has.exc # "" THEN [exc |-> has.exc, v |-> None]
       ELSE IF has.b THEN
            (IF value.t # "dict" THEN [exc |-> "TypeError", v |-> None]
             ELSE LET r == value.d["replies"]
                  IN IF r.t \notin {"list", "str", "dict"} THEN [exc |-> "TypeError", v |-> None]
                     ELSE IF r.t = "list" /\ \A i \in DOMAIN r.l : r.l[i].t = "ChatMessage"
                     THEN ToOpenAI(r)
                     ELSE IF ~Truthy(r) THEN [exc |-> "", v |-> List(<<>>)]
                     ELSE [exc |-> "", v |-> r])
       ELSE [exc |-> "", v |-> coerce_tag_value(value)]

\* set_content_tag writing the cache before it looks at the flag
set_content_tag_CacheFirst(data, key, value, enabled, update_raises) ==
    IF ~enabled THEN [data |-> DictSet(data, key, value), calls |-> <<>>, exc |-> ""]
    ELSE IF EndsWithInput(key) \/ EndsWithOutput(key) THEN
        LET fwd == IF EndsWithInput(key) THEN ContentInput(value) ELSE ContentOutput(value)
            call == IF EndsWithInput(key)
                    THEN Event("update", 0, [input |-> fwd.v], update_raises)
                    ELSE Event("update", 0, [output |-> fwd.v], update_raises)
        IN IF fwd.exc # "" THEN [data |-> data, calls |-> <<>>, exc |-> fwd.exc]
           ELSE IF update_raises THEN [data |-> data, calls |-> <<call>>, exc |-> "UpdateError"]
           ELSE [data |-> DictSet(data, key, value), calls |-> <<call>>, exc |-> ""]
    ELSE [data |-> DictSet(data, key, value), calls |-> <<>>, exc |-> ""]

\* LangfuseSpan.set_content_tag; enabled: proxy_tracer.is_content_tracing_enabled
set_content_tag(data, key, value, enabled, update_raises) ==
    IF ~enabled THEN [data |-> data, calls |-> <<>>, exc |-> ""]
    ELSE IF EndsWithInput(key) \/ EndsWithOutput(key) THEN
        LET fwd == IF EndsWithInput(key) THEN ContentInput(value) ELSE ContentOutput(value)
            call == IF EndsWithInput(key)
                    THEN Event("update", 0, [input |-> fwd.v], update_raises)
                    ELSE Event("update", 0, [output |-> fwd.v], update_raises)
        IN IF fwd.exc # "" THEN [data |-> data, calls |-> <<>>, exc |-> fwd.exc]
           ELSE IF update_raises THEN [data |-> data, calls |-> <<call>>, exc |-> "UpdateError"]
           ELSE [data |-> DictSet(data, key, value), calls |-> <<call>>, exc |-> ""]
    ELSE [data |-> DictSet(data, key, value), calls |-> <<>>, exc |-> ""]

\* Span.set_tags: set_tag for every tag in the dict's order; the fail_at-th
\* backend update raises (0: none does), which ends the loop
RECURSIVE set_tags(_, _, _)
set_tags(data, tags, fail_at) ==
    IF tags = <<>> THEN [data |-> data, calls |-> <<>>, exc |-> ""]
    ELSE LET r == set_tag(data, tags[1][1], tags[1][2], fail_at = 1)
         IN IF r.exc # "" THEN r
            ELSE LET rest == set_tags(r.data, Tail(tags), IF fail_at = 0 THEN 0 ELSE fail_at - 1)
                 IN [data |-> rest.data, calls |-> r.calls \o rest.calls, exc |-> rest.exc]

\* ------------------------------------------------------ datetime.fromisoformat

\* the characters of the timestamp strings the model draws
Chars(s) ==
    CASE s = "2024-01-01T00:00:00" ->
            <<"2","0","2","4","-","0","1","-","0","1","T","0","0",":","0","0",":","0","0">>
      [] s = "2024-02-29" -> <<"2","0","2","4","-","0","2","-","2","9">>
      [] s = "2023-02-29" -> <<"2","0","2","3","-","0","2","-","2","9">>
      [] s = "2024-13-01" -> <<"2","0","2","4","-","1","3","-","0","1">>
      [] s = "2024-01-01T24:00:00" ->
            <<"2","0","2","4","-","0","1","-","0","1","T","2","4",":","0","0",":","0","0">>
      [] s = "not-a-date" -> <<"n","o","t","-","a","-","d","a","t","e">>
      [] s = "" -> <<>>

IsoStrings ==
    { "2024-01-01T00:00:00", "2024-02-29", "2023-02-29", "2024-13-01",
      "2024-01-01T24:00:00", "not-a-date", "" }

DigitChars == <<"0", "1", "2", "3", "4", "5", "6", "7", "8", "9">>
IsDigit(c) == \E i \in DOMAIN DigitChars : DigitChars[i] = c
DigitVal(c) == (CHOOSE i \in DOMAIN DigitChars : DigitChars[i] = c) - 1

\* the number written by the digits c[i..j]
RECURSIVE Num(_, _, _)
Num(c, i, j) == IF j < i THEN 0 ELSE 10 * Num(c, i, j - 1) + DigitVal(c[j])
AllDigits(c, i, j) == \A k \in i..j : IsDigit(c[k])

IsLeap(y) == (y % 4 = 0 /\ y % 100 # 0) \/ y % 400 = 0
DaysInMonth(y, m) ==
    IF m = 2 THEN (IF IsLeap(y) THEN 29 ELSE 28)
    ELSE IF m \in {4, 6, 9, 11} THEN 30 ELSE 31

\* datetime.fromisoformat on YYYY-MM-DD and YYYY-MM-DD?HH:MM:SS, the two forms
\* the model's strings take: the parsed datetime, or the exception raised (a
\* ValueError for a string that is no timestamp, a TypeError for a non-string)
fromisoformat(v) ==
    IF v.t # "str" THEN [exc |-> "TypeError", v |-> None]
    ELSE
    LET c == Chars(v.s)
        dateOk == /\ Len(c) \in {10, 19}
                  /\ AllDigits(c, 1, 4) /\ c[5] = "-" /\ AllDigits(c, 6, 7)
                  /\ c[8] = "-" /\ AllDigits(c, 9, 10)
                  /\ Num(c, 1, 4) >= 1
                  /\ Num(c, 6, 7) \in 1..12
                  /\ Num(c, 9, 10) \in 1..DaysInMonth(Num(c, 1, 4), Num(c, 6, 7))
        timeOk == Len(c) = 19 =>
                  /\ AllDigits(c, 12, 13) /\ c[14] = ":" /\ AllDigits(c, 15, 16)
                  /\ c[17] = ":" /\ AllDigits(c, 18, 19)
                  /\ Num(c, 12, 13) < 24 /\ Num(c, 15, 16) < 60 /\ Num(c, 18, 19) < 60
    IN IF dateOk /\ timeOk
       THEN [exc |-> "",
             v |-> [t |-> "datetime",
                    year |-> Num(c, 1, 4), month |-> Num(c, 6, 7), day |-> Num(c, 9, 10),
                    hour |-> IF Len(c) = 19 THEN Num(c, 12, 13) ELSE 0,
                    minute |-> IF Len(c) = 19 THEN Num(c, 15, 16) ELSE 0,
                    second |-> IF Len(c) = 19 THEN Num(c, 18, 19) ELSE 0]]
       ELSE [exc |-> "ValueError", v |-> None]

\* ------------------------------------------------------ DefaultSpanHandler

\* component_type in <list of names>
InNames(component_type, names) == component_type.t = "str" /\ component_type.s \in names

\* create_span with the component type looked at before the parent
create_span_KindFirst(context, tracer_set, tracing_ctx) ==
    IF ~tracer_set THEN [exc |-> "RuntimeError", ev |-> "", on |-> 0, args |-> EmptyDict]
    ELSE IF InNames(context.component_type, _ALL_SUPPORTED_GENERATORS) THEN
        [exc |-> "", ev |-> "generation", on |-> context.parent_span, args |-> [name |-> context.name]]
    ELSE IF context.parent_span = 0 THEN
        [exc |-> "", ev |-> "trace", on |-> 0,
         args |-> [name |-> context.trace_name, public |-> context.public,
                   id |-> DictGet(tracing_ctx, "trace_id", None),
                   user_id |-> DictGet(tracing_ctx, "user_id", None),
                   session_id |-> DictGet(tracing_ctx, "session_id", None),
                   tags |-> DictGet(tracing_ctx, "tags", None),
                   version |-> DictGet(tracing_ctx, "version", None)]]
    ELSE
        [exc |-> "", ev |-> "span", on |-> context.parent_span, args |-> [name |-> context.name]]

\* create_span without the check that the handler has a backend client
create_span_Unchecked(context, tracer_set, tracing_ctx) ==
    IF context.parent_span = 0 THEN
        [exc |-> "", ev |-> "trace", on |-> 0,
         args |-> [name |-> context.trace_name, public |-> context.public,
                   id |-> DictGet(tracing_ctx, "trace_id", None),
                   user_id |-> DictGet(tracing_ctx, "user_id", None),
                   session_id |-> DictGet(tracing_ctx, "session_id", None),
                   tags |-> DictGet(tracing_ctx, "tags", None),
                   version |-> DictGet(tracing_ctx, "version", None)]]
    ELSE IF InNames(context.component_type, _ALL_SUPPORTED_GENERATORS) THEN
        [exc |-> "", ev |-> "generation", on |-> context.parent_span, args |-> [name |-> context.name]]
    ELSE
        [exc |-> "", ev |-> "span", on |-> context.parent_span, args |-> [name |-> context.name]]

\* DefaultSpanHandler.create_span: the exception raised ("" for none) and the
\* backend call that creates the object: trace on the client (on = 0), or
\* generation / span on the parent's backend object
\* create_span handing the ambient trace id to nested spans and generations too
create_span_AmbientNested(context, tracer_set, tracing_ctx) ==
    IF ~tracer_set THEN [exc |-> "RuntimeError", ev |-> "", on |-> 0, args |-> EmptyDict]
    ELSE IF context.parent_span = 0 THEN
        [exc |-> "", ev |-> "trace", on |-> 0,
         args |-> [name |-> context.trace_name, public |-> context.public,
                   id |-> DictGet(tracing_ctx, "trace_id", None),
                   user_id |-> DictGet(tracing_ctx, "user_id", None),
                   session_id |-> DictGet(tracing_ctx, "session_id", None),
                   tags |-> DictGet(tracing_ctx, "tags", None),
                   version |-> DictGet(tracing_ctx, "version", None)]]
    ELSE IF InNames(context.component_type, _ALL_SUPPORTED_GENERATORS) THEN
        [exc |-> "", ev |-> "generation", on |-> context.parent_span,
         args |-> [name |-> context.name, id |-> DictGet(tracing_ctx, "trace_id", None)]]
    ELSE
        [exc |-> "", ev |-> "span", on |-> context.parent_span,
         args |-> [name |-> context.name, id |-> DictGet(tracing_ctx, "trace_id", None)]]

create_span(context, tracer_set, tracing_ctx) ==
    IF ~tracer_set THEN [exc |-> "RuntimeError", ev |-> "", on |-> 0, args |-> EmptyDict]
    ELSE IF context.parent_span = 0 THEN
        [exc |-> "", ev |-> "trace", on |-> 0,
         args |-> [name |-> context.trace_name, public |-> context.public,
                   id |-> DictGet(tracing_ctx, "trace_id", None),
                   user_id |-> DictGet(tracing_ctx, "user_id", None),
                   session_id |-> DictGet(tracing_ctx, "session_id", None),
                   tags |-> DictGet(tracing_ctx, "tags", None),
                   version |-> DictGet(tracing_ctx, "version", None)]]
    ELSE IF InNames(context.component_type, _ALL_SUPPORTED_GENERATORS) THEN
        [exc |-> "", ev |-> "generation", on |-> context.parent_span, args |-> [name |-> context.name]]
    ELSE
        [exc |-> "", ev |-> "span", on |-> context.parent_span, args |-> [name |-> context.name]]

\* what one enrichment rule of handle does: the backend updates it makes and
\* the exception it raises ("" for none)
NoCalls == [calls |-> <<>>, exc |-> ""]
Raises(e) == [calls |-> <<>>, exc |-> e]
Updates(args) == [calls |-> <<Event("update", 0, args, FALSE)>>, exc |-> ""]

\* x or None
OrNone(x) == IF Truthy(x) THEN x ELSE None

\* handle, rule 1: a span at the pipeline level gets the coerced input and output
PipelineRule(data) ==
    IF DictGet(data, _PIPELINE_INPUT_KEY, None) # None
    THEN Updates([input |-> coerce_tag_value(DictGet(data, _PIPELINE_INPUT_KEY, None)),
                  output |-> coerce_tag_value(DictGet(data, _PIPELINE_OUTPUT_KEY, None))])
    ELSE NoCalls

\* the tool names of the tool calls of the ChatMessages among messages, in order
RECURSIVE ToolNamesOf(_)
ToolNamesOf(messages) ==
    IF messages = <<>> THEN <<>>
    ELSE LET m == messages[1]
         IN (IF m.t = "ChatMessage" /\ m.tool_calls # <<>> THEN m.tool_calls ELSE <<>>)
            \o ToolNamesOf(Tail(messages))

\* collections.Counter(tool_names).items(): each distinct name with its count,
\* in the order of first occurrence
RECURSIVE CounterItems(_, _)
CounterItems(tool_names, seen) ==
    IF tool_names = <<>> THEN <<>>
    ELSE IF tool_names[1] \in seen THEN CounterItems(Tail(tool_names), seen)
    ELSE <<[name |-> tool_names[1],
            count |-> Cardinality({i \in DOMAIN tool_names : tool_names[i] = tool_names[1]})]>>
         \o CounterItems(Tail(tool_names), seen \cup {tool_names[1]})

\* f"{name} (x{count})" if count > 1 else name
FormatName(item) ==
    IF item.count > 1 THEN item.name \o " (x" \o ToString(item.count) \o ")" ELSE item.name

\* the printable ASCII characters in code point order: those from the space
\* (32) to the underscore (95), and those from a (97) to the tilde (126)
AsciiLow == " !\"#$%&'()*+,-./0123456789:;<=>?@ABCDEFGHIJKLMNOPQRSTUVWXYZ[\\]^_"
AsciiHigh == "abcdefghijklmnopqrstuvwxyz{|}~"
\* ord(c) of a character
ord(c) ==
    CASE c = "\t" -> 9 [] c = "\n" -> 10 [] c = "\f" -> 12 [] c = "\r" -> 13
      [] \E i \in 1..Len(AsciiLow) : SubSeq(AsciiLow, i, i) = c ->
            31 + (CHOOSE i \in 1..Len(AsciiLow) : SubSeq(AsciiLow, i, i) = c)
      [] OTHER -> 96 + (CHOOSE i \in 1..Len(AsciiHigh) : SubSeq(AsciiHigh, i, i) = c)
\* a < b on strs: the first differing character decides, a proper prefix is less
RECURSIVE StrLess(_, _)
StrLess(a, b) ==
    IF b = "" THEN FALSE
    ELSE IF a = "" THEN TRUE
    ELSE IF SubSeq(a, 1, 1) = SubSeq(b, 1, 1)
         THEN StrLess(SubSeq(a, 2, Len(a)), SubSeq(b, 2, Len(b)))
    ELSE ord(SubSeq(a, 1, 1)) < ord(SubSeq(b, 1, 1))

\* sorted(formatted_names): the formatted names in ascending order
RECURSIVE InsertSorted(_, _)
InsertSorted(item, sorted) ==
    IF sorted = <<>> THEN <<item>>
    ELSE IF StrLess(item, sorted[1]) THEN <<item>> \o sorted
    ELSE <<sorted[1]>> \o InsertSorted(item, Tail(sorted))
\* the formatted names left in the order of first occurrence
SortItems_Unsorted(items) == items
RECURSIVE SortItems(_)
SortItems(items) ==
    IF items = <<>> THEN <<>> ELSE InsertSorted(items[1], SortItems(Tail(items)))

\* the characters of a str
CharsOf(s) == [i \in 1..Len(s) |-> SubSeq(s, i, i)]

\* repr of a str: in single quotes, or in double quotes when it holds a single
\* quote and no double quote; the backslash, the enclosing quote and the
\* control characters are written as escapes
EscapeChar(ch, quote) ==
    CASE ch = "\\" -> "\\\\"
      [] ch = quote -> "\\" \o quote
      [] ch = "\n" -> "\\n"
      [] ch = "\t" -> "\\t"
      [] ch = "\r" -> "\\r"
      [] ch = "\f" -> "\\x0c"
      [] OTHER -> ch
RECURSIVE Escaped(_, _)
Escaped(chars, quote) ==
    IF chars = <<>> THEN ""
    ELSE EscapeChar(chars[1], quote) \o Escaped(Tail(chars), quote)
ReprStr(s) ==
    LET chars == CharsOf(s)
        quote == IF (\E i \in DOMAIN chars : chars[i] = "'")
                    /\ ~(\E i \in DOMAIN chars : chars[i] = "\"")
                 THEN "\"" ELSE "'"
    IN quote \o Escaped(chars, quote) \o quote

\* n in decimal digits, filled with zeros to width digits
RECURSIVE ZeroPad(_, _)
ZeroPad(n, width) ==
    IF Len(ToString(n)) >= width THEN ToString(n) ELSE "0" \o ZeroPad(n, width - 1)

\* repr(x): a str in quotes, a number in digits, a list and a dict with the
\* repr of what they hold in the order they hold it, a datetime by its fields,
\* a ChatMessage by the fields the model keeps of it
RECURSIVE PyRepr(_)
RECURSIVE ReprItems(_)
RECURSIVE ReprEntries(_, _)
RECURSIVE ReprToolCalls(_)
PyRepr(v) ==
    CASE v.t = "str" -> ReprStr(v.s)
      [] v.t = "None" -> "None"
      [] v.t = "int" -> ToString(v.n)
      [] v.t = "list" -> "[" \o ReprItems(v.l) \o "]"
      [] v.t = "dict" -> "{" \o ReprEntries(v.d, v.k) \o "}"
      [] v.t = "datetime" ->
            "datetime.datetime(" \o ToString(v.year) \o ", " \o ToString(v.month) \o ", "
            \o ToString(v.day) \o ", " \o ToString(v.hour) \o ", " \o ToString(v.minute)
            \o (IF v.second # 0 THEN ", " \o ToString(v.second) ELSE "") \o ")"
      [] v.t = "ChatMessage" ->
            "ChatMessage(_meta=" \o PyRepr(v.meta) \o ", _tool_calls=["
            \o ReprToolCalls(v.tool_calls) \o "])"
ReprItems(l) ==
    IF l = <<>> THEN ""
    ELSE PyRepr(l[1]) \o (IF Len(l) > 1 THEN ", " ELSE "") \o ReprItems(Tail(l))
\* the entries of the dict d, key by key in the order keys
ReprEntries(d, keys) ==
    IF keys = <<>> THEN ""
    ELSE ReprStr(keys[1]) \o ": " \o PyRepr(d[keys[1]])
         \o (IF Len(keys) > 1 THEN ", " ELSE "") \o ReprEntries(d, Tail(keys))
ReprToolCalls(names) ==
    IF names = <<>> THEN ""
    ELSE "ToolCall(tool_name=" \o ReprStr(names[1]) \o ", arguments={}, id=None)"
         \o (IF Len(names) > 1 THEN ", " ELSE "") \o ReprToolCalls(Tail(names))

\* str(x) as an f-string writes it: a str as it is, a datetime as
\* YYYY-MM-DD HH:MM:SS, and None, a number, a list, a dict as their repr
StrOf(v) ==
    CASE v.t = "str" -> v.s
      [] v.t = "datetime" ->
            ZeroPad(v.year, 4) \o "-" \o ZeroPad(v.month, 2) \o "-" \o ZeroPad(v.day, 2)
            \o " " \o ZeroPad(v.hour, 2) \o ":" \o ZeroPad(v.minute, 2)
            \o ":" \o ZeroPad(v.second, 2)
      [] OTHER -> PyRepr(v)

\* str(list of str): "['a', 'b (x2)']"
ListRepr(items) == StrOf(List([i \in DOMAIN items |-> Str(items[i])]))

\* handle, rule 2: a ToolInvoker span is renamed after the tools it called
ToolInvokerRule(data, component_type) ==
    IF component_type # Str("ToolInvoker") THEN NoCalls
    ELSE LET input == DictGet(data, _COMPONENT_INPUT_KEY, Dict(<<>>))
         IN IF input.t # "dict" THEN Raises("AttributeError")
            ELSE LET messages == DictGet(input.d, "messages", List(<<>>))
                 IN IF messages.t \notin {"list", "str", "dict"} THEN Raises("TypeError")
                    ELSE LET tool_names == IF messages.t = "list" THEN ToolNamesOf(messages.l) ELSE <<>>
                             tool_invoker_name == DictGet(data, _COMPONENT_NAME_KEY, Str("ToolInvoker"))
                             tool_counts == CounterItems(tool_names, {})
                             formatted_names == [i \in DOMAIN tool_counts |-> FormatName(tool_counts[i])]
                         IN IF tool_names = <<>> THEN NoCalls
                            ELSE Updates([name |-> Str(StrOf(tool_invoker_name) \o " - "
                                                       \o ListRepr(SortItems(formatted_names)))])

\* x[0]: the first element of a list, the first character of a str, a
\* KeyError on a dict (no dict of the model has the key 0), an IndexError on
\* an empty list or str, a TypeError on a value that cannot be subscripted
Item0(x) ==
    CASE x.t = "list" -> IF x.l = <<>> THEN [exc |-> "IndexError", v |-> None]
                         ELSE [exc |-> "", v |-> x.l[1]]
      [] x.t = "str" -> IF x.s = "" THEN [exc |-> "IndexError", v |-> None]
                        ELSE [exc |-> "", v |-> Str(SubSeq(x.s, 1, 1))]
      [] x.t = "dict" -> [exc |-> "KeyError", v |-> None]
      [] OTHER -> [exc |-> "TypeError", v |-> None]

\* handle, rule 3: a generator span gets usage and model of the first meta
GeneratorRule(data, component_type) ==
    IF ~InNames(component_type, _SUPPORTED_GENERATORS) THEN NoCalls
    ELSE LET output == DictGet(data, _COMPONENT_OUTPUT_KEY, Dict(<<>>))
         IN IF output.t # "dict" THEN Raises("AttributeError")
            ELSE LET meta == DictGet(output.d, "meta", None)
                     first == Item0(meta)
                 IN IF ~Truthy(meta) THEN NoCalls
                    ELSE IF first.exc # "" THEN Raises(first.exc)
                    ELSE IF first.v.t # "dict" THEN Raises("AttributeError")
                    ELSE Updates([usage |-> OrNone(DictGet(first.v.d, "usage", None)),
                                  model |-> DictGet(first.v.d, "model", None)])

\* handle, rule 4: a chat generator span gets usage, model and the parsed
\* completion_start_time of the first reply
ChatGeneratorRule(data, component_type) ==
    IF ~InNames(component_type, _SUPPORTED_CHAT_GENERATORS) THEN NoCalls
    ELSE LET output == DictGet(data, _COMPONENT_OUTPUT_KEY, Dict(<<>>))
         IN IF output.t # "dict" THEN Raises("AttributeError")
            ELSE LET replies == DictGet(output.d, "replies", None)
                     first == Item0(replies)
                 IN IF ~Truthy(replies) THEN NoCalls
                    ELSE IF first.exc # "" THEN Raises(first.exc)
                    ELSE IF first.v.t # "ChatMessage" \/ first.v.meta.t # "dict"
                    THEN Raises("AttributeError")
                    ELSE LET meta == first.v.meta.d
                             completion_start_time == DictGet(meta, "completion_start_time", None)
                             parsed == fromisoformat(completion_start_time)
                         IN IF Truthy(completion_start_time) /\ parsed.exc = "TypeError"
                            THEN Raises("TypeError")
                            ELSE Updates(
                                [usage |-> OrNone(DictGet(meta, "usage", None)),
                                 model |-> DictGet(meta, "model", None),
                                 completion_start_time |->
                                    IF ~Truthy(completion_start_time) THEN completion_start_time
                                    ELSE IF parsed.exc = "ValueError" THEN None
                                    ELSE parsed.v])

\* the rules of handle in order: a rule that raises ends handle
RECURSIVE RunRules(_)
RunRules(rules) ==
    IF rules = <<>> THEN NoCalls
    ELSE IF rules[1].exc # "" THEN rules[1]
    ELSE LET rest == RunRules(Tail(rules))
         IN [calls |-> rules[1].calls \o rest.calls, exc |-> rest.exc]

\* the calls up to the fail_at-th backend update, which raises (0: none does)
FailAt(r, fail_at) ==
    IF fail_at = 0 \/ fail_at > Len(r.calls) THEN r
    ELSE [calls |-> [i \in 1..fail_at |->
                        IF i = fail_at THEN [r.calls[i] EXCEPT !.raised = TRUE] ELSE r.calls[i]],
          exc |-> "UpdateError"]

\* DefaultSpanHandler.handle on a span whose cache is data
handle(data, component_type, fail_at) ==
    FailAt(RunRules(<<PipelineRule(data),
                      ToolInvokerRule(data, component_type),
                      GeneratorRule(data, component_type),
                      ChatGeneratorRule(data, component_type)>>), fail_at)

\* ---------------------------------------------------------- LangfuseTracer

VARIABLES
    _context,             \* LangfuseTracer._context: the stack of active spans
    _name,                \* LangfuseTracer._name: the name of root traces
    _public,              \* LangfuseTracer._public
    enforce_flush,        \* LangfuseTracer.enforce_flush
    tracer,               \* SpanHandler.tracer is set (is not None)
    content_tracing,      \* proxy_tracer.is_content_tracing_enabled
    tracing_context_var,  \* the ambient correlation context
    spans,                \* every LangfuseSpan created: its backend object and cache
    frames,               \* the trace invocations suspended at their yield
    events,               \* the calls made into the backend and the tracer's steps
    last,                 \* how the latest half of a trace invocation ended
    ncalls,               \* trace invocations made
    twin,                 \* SpecTags: one span under either setting of the flag
    handled,              \* SpecHandle: a cache and what handle did with it
    newspan,                 \* SpecCreate: a SpanContext and what create_span did with it
    runs                  \* SpecPrivacy: two runs of one span that differ in content values

config == <<_name, _public, enforce_flush, content_tracing, tracing_context_var>>
probes == <<twin, handled, newspan, runs>>
vars == <<_context, config, tracer, spans, frames, events, last, ncalls, probes>>

\* the calls of a span method, made on span
Stamp(calls, span) == [i \in DOMAIN calls |-> [calls[i] EXCEPT !.span = span]]

\* current_span looking at the bottom of the stack
current_span_Bottom == IF _context # <<>> THEN _context[1] ELSE 0

\* LangfuseTracer.current_span: the top of the stack, 0 (None) when it is empty
current_span == IF _context # <<>> THEN _context[Len(_context)] ELSE 0

\* how a half of a trace invocation handed control back: op is "enter" (up to
\* the yield) or "exit" (after it), span the span of the invocation (0: none was
\* created), outcome the exception raised to the caller ("" for none), body how
\* the body ended, before the stack just before the trace call, cleanup the
\* exceptions of handle and end() that the exit caught, and context the
\* SpanContext the call built
Ended(op, span, outcome, body, before, cleanup, context) ==
    [op |-> op, span |-> span, outcome |-> outcome, body |-> body,
     before |-> before, cleanup |-> cleanup, context |-> context]

\* the guard of the pop looking at the bottom of the stack instead of its top
PopsOwnSpan_Bottom(context, span) == context # <<>> /\ context[1] = span

\* the guard of the pop not looking at which span is on top
PopsOwnSpan_AnyTop(context, span) == context # <<>>

\* the guard of the pop: the stack is not empty and its top is this span
PopsOwnSpan(context, span) == context # <<>> /\ context[Len(context)] = span

\* calls of LangfuseTracer.flush made by the application so far
PublicFlushes == Cardinality({i \in DOMAIN events : events[i].ev = "flush" /\ events[i].span = 0})

\* LangfuseTracer.flush called by the application, outside any scope exit: the
\* backend flush() is called, and nothing else changes; flush_raises: it raises
flush(flush_raises) ==
    /\ events' = Append(events, Event("flush", 0, <<>>, flush_raises))
    /\ UNCHANGED <<_context, config, tracer, spans, frames, last, ncalls, probes>>

\* SpanHandler.init_tracer
init_tracer(t) ==
    /\ tracer # t
    /\ tracer' = t
    /\ UNCHANGED <<_context, config, spans, frames, events, last, ncalls, probes>>

\* LangfuseTracer.trace up to its yield.  create_raises: the backend call that
\* creates the object raises; fail_at: which backend update of set_tags raises.
trace_enter(operation_name, tags, parent_span, create_raises, fail_at) ==
    /\ ncalls' = ncalls + 1
    /\ LET span_name == TagsGet(tags, _COMPONENT_NAME_KEY, operation_name)
           component_type == TagsGet(tags, _COMPONENT_TYPE_KEY, None)
           span_context == [name |-> span_name,
                            operation_name |-> operation_name,
                            component_type |-> component_type,
                            tags |-> tags,
                            parent_span |-> IF parent_span # 0 THEN parent_span ELSE current_span,
                            trace_name |-> _name,
                            public |-> _public]
           invalid == SpanContextError(span_context)
           created == create_span(span_context, tracer, tracing_context_var)
           span == Len(spans) + 1
           creation == Event(created.ev, IF create_raises THEN 0 ELSE span,
                             [on |-> created.on, kw |-> created.args], create_raises)
           tagged == set_tags(EmptyDict, tags, fail_at)
       IN IF invalid # "" THEN
               /\ last' = Ended("enter", 0, "ValueError", "", _context, <<>>, span_context)
               /\ UNCHANGED <<_context, spans, frames, events>>
          ELSE IF created.exc # "" THEN
               /\ last' = Ended("enter", 0, created.exc, "", _context, <<>>, span_context)
               /\ UNCHANGED <<_context, spans, frames, events>>
          ELSE IF create_raises THEN
               /\ events' = Append(events, creation)
               /\ last' = Ended("enter", 0, "CreateError", "", _context, <<>>, span_context)
               /\ UNCHANGED <<_context, spans, frames>>
          ELSE
               /\ _context' = Append(_context, span)
               /\ spans' = Append(spans, [kind |-> created.ev, parent |-> created.on,
                                          given |-> parent_span, _data |-> tagged.data])
               /\ events' = Append(events, creation) \o Stamp(tagged.calls, span)
               /\ IF tagged.exc # "" THEN
                       /\ last' = Ended("enter", span, tagged.exc, "", _context, <<>>, span_context)
                       /\ UNCHANGED frames
                  ELSE
                       /\ last' = Ended("enter", span, "", "", _context, <<>>, span_context)
                       /\ frames' = Append(frames, [span |-> span,
                                                    operation_name |-> operation_name,
                                                    component_type |-> component_type,
                                                    before |-> _context])
    /\ UNCHANGED <<config, tracer, probes>>

\* the events of one scope exit with the flush made before the pop
ExitEvents_FlushBeforePop(span, component_type, h, end_called, end_raises, popped, flush_called, flush_raises) ==
    <<Event("handle", span, [component_type |-> component_type], h.exc # "")>>
    \o Stamp(h.calls, span)
    \o (IF end_called THEN <<Event("end", span, <<>>, end_raises)>> ELSE <<>>)
    \o (IF flush_called THEN <<Event("flush", span, <<>>, flush_raises)>> ELSE <<>>)
    \o (IF popped THEN <<Event("pop", span, <<>>, FALSE)>> ELSE <<>>)

\* the events of one scope exit, in the order the code makes them
ExitEvents(span, component_type, h, end_called, end_raises, popped, flush_called, flush_raises) ==
    <<Event("handle", span, [component_type |-> component_type], h.exc # "")>>
    \o Stamp(h.calls, span)
    \o (IF end_called THEN <<Event("end", span, <<>>, end_raises)>> ELSE <<>>)
    \o (IF popped THEN <<Event("pop", span, <<>>, FALSE)>> ELSE <<>>)
    \o (IF flush_called THEN <<Event("flush", span, <<>>, flush_raises)>> ELSE <<>>)

\* LangfuseTracer.trace after its yield, for the invocation frames[i].  body:
\* how the operation body ended; fail_at: which backend update of handle
\* raises; end_raises, flush_raises: the backend end() and flush() raise.
trace_exit(i, body, fail_at, end_raises, flush_raises) ==
    LET f == frames[i]
        span == f.span
        h == handle(spans[span]._data, f.component_type, fail_at)
        end_called == h.exc = "" /\ spans[span].kind \in {"span", "generation"}
        cleanup == IF h.exc # "" THEN <<h.exc>>
                   ELSE IF end_called /\ end_raises THEN <<"EndError">> ELSE <<>>
        popped == PopsOwnSpan(_context, span)
        flush_called == enforce_flush
        outcome == IF flush_called /\ flush_raises THEN "FlushError"
                   ELSE IF body = "raise" THEN "BodyError" ELSE ""
    IN /\ events' = events \o ExitEvents(span, f.component_type, h, end_called, end_raises,
                                         popped, flush_called, flush_raises)
       /\ _context' = IF popped THEN SubSeq(_context, 1, Len(_context) - 1) ELSE _context
       /\ frames' = [j \in 1..(Len(frames) - 1) |-> IF j < i THEN frames[j] ELSE frames[j + 1]]
       /\ last' = Ended("exit", span, outcome, body, f.before, cleanup, <<>>)
       /\ UNCHANGED <<config, tracer, spans, ncalls, probes>>

\* ------------------------------------------------------------------ inputs

OperationNames == {Str("haystack.component.run"), Str("")}

PipelineData == Dict(<<<<"query", Str("q")>>>>)
ChatReply(ts) ==
    ChatMessage(Dict(<<<<"usage", Dict(<<<<"total_tokens", IntV(42)>>>>)>>,
                       <<"model", Str("gpt-x")>>,
                       <<"completion_start_time", Str(ts)>>>>), <<>>)
ChatOutput == Dict(<<<<"replies", List(<<ChatReply("2024-01-01T00:00:00")>>)>>>>)

\* the tags dicts handed to trace
TagSets ==
    { <<>>,
      <<<<_COMPONENT_NAME_KEY, Str("llm")>>, <<_COMPONENT_TYPE_KEY, Str("OpenAIChatGenerator")>>>>,
      <<<<_COMPONENT_NAME_KEY, Str("")>>>>,
      <<<<_PIPELINE_INPUT_KEY, PipelineData>>>> }

MaxTags == 2

TracingContexts ==
    { EmptyDict,
      [trace_id |-> Str("t-1"), user_id |-> Str("u-1")],
      [session_id |-> Str("s-1")],
      [trace_id |-> Str("t-2"), user_id |-> Str("u-2"), session_id |-> Str("s-2"),
       tags |-> List(<<Str("prod")>>), version |-> Str("v1")] }

\* ------------------------------------------------------------ specification

\* LangfuseTracer.__init__ with a DefaultSpanHandler
Init ==
    /\ _context = <<>>
    /\ _name \in {Str("Haystack"), Str("")}
    /\ _public = FALSE
    /\ enforce_flush \in BOOLEAN
    /\ tracer = TRUE
    /\ content_tracing = TRUE
    /\ tracing_context_var = EmptyDict
    /\ spans = <<>>
    /\ frames = <<>>
    /\ events = <<>>
    /\ last = Ended("none", 0, "", "", <<>>, <<>>, <<>>)
    /\ ncalls = 0
    /\ twin = <<>>
    /\ handled = <<>>
    /\ newspan = <<>>
    /\ runs = <<>>

\* the parent_span arguments drawn: none (0), or a span other than the stack
\* top (the top given explicitly is drawn in SpecScopes)
ParentSpans == {p \in 0..Len(spans) : p = 0 \/ p # current_span}

Next ==
    \/ \E t \in BOOLEAN : init_tracer(t)
    \/ /\ ncalls + PublicFlushes < MaxCalls
       /\ \E operation_name \in OperationNames, tags \in TagSets, parent_span \in ParentSpans,
             create_raises \in BOOLEAN, fail_at \in 0..MaxTags :
             trace_enter(operation_name, tags, parent_span, create_raises, fail_at)
    \/ \E body \in {"return", "raise"}, fail_at \in 0..1, end_raises \in BOOLEAN,
          flush_raises \in BOOLEAN :
          frames # <<>> /\ trace_exit(Len(frames), body, fail_at, end_raises, flush_raises)
    \/ /\ ncalls + PublicFlushes < MaxCalls
       /\ \E flush_raises \in BOOLEAN : flush(flush_raises)

Spec == Init /\ [][Next]_vars

\* ------------------------------------------- SpecTags: one span, both flags

\* The same calls of set_tag and set_content_tag are made on two fresh spans,
\* one with content tracing enabled (on) and one with it disabled (off).  twin
\* holds the two caches, the backend calls each span made, the latest call
\* with the exception it raised on either span and the caches before it, and
\* the calls made so far.

InputMessages == Dict(<<<<"messages", List(<<ChatMessage(Dict(<<>>), <<"search">>)>>)>>>>)
TwinKeys == {_COMPONENT_INPUT_KEY, _COMPONENT_OUTPUT_KEY, _PIPELINE_INPUT_KEY}
TwinValues == {InputMessages, ChatOutput, PipelineData, IntV(5), Str("all messages here")}

TwinCall(method, key, value, on, off) ==
    [method |-> method, key |-> key, value |-> value, exc_on |-> on.exc, exc_off |-> off.exc,
     before_on |-> twin.on, before_off |-> twin.off, sent_off |-> Len(twin.sent_off)]

twin_set_tag(key, value, update_raises) ==
    /\ twin.n < MaxTwinOps
    /\ LET on == set_tag(twin.on, key, value, update_raises)
           off == set_tag(twin.off, key, value, update_raises)
       IN twin' = [on |-> on.data, off |-> off.data,
                   sent_on |-> twin.sent_on \o on.calls, sent_off |-> twin.sent_off \o off.calls,
                   n |-> twin.n + 1, call |-> TwinCall("set_tag", key, value, on, off),
                   log |-> Append(twin.log, TwinCall("set_tag", key, value, on, off))]
    /\ UNCHANGED <<_context, config, tracer, spans, frames, events, last, ncalls, handled, newspan, runs>>

twin_set_content_tag(key, value, update_raises) ==
    /\ twin.n < MaxTwinOps
    /\ LET on == set_content_tag(twin.on, key, value, TRUE, update_raises)
           off == set_content_tag(twin.off, key, value, FALSE, update_raises)
       IN twin' = [on |-> on.data, off |-> off.data,
                   sent_on |-> twin.sent_on \o on.calls, sent_off |-> twin.sent_off \o off.calls,
                   n |-> twin.n + 1, call |-> TwinCall("set_content_tag", key, value, on, off),
                   log |-> Append(twin.log, TwinCall("set_content_tag", key, value, on, off))]
    /\ UNCHANGED <<_context, config, tracer, spans, frames, events, last, ncalls, handled, newspan, runs>>

\* no tracer activity: the state LangfuseTracer.__init__ leaves
IdleTracer ==
    /\ _context = <<>>
    /\ _name = Str("Haystack")
    /\ _public = FALSE
    /\ enforce_flush = TRUE
    /\ tracer = TRUE
    /\ content_tracing = TRUE
    /\ tracing_context_var = EmptyDict
    /\ spans = <<>>
    /\ frames = <<>>
    /\ events = <<>>
    /\ last = Ended("none", 0, "", "", <<>>, <<>>, <<>>)
    /\ ncalls = 0

InitTags ==
    /\ IdleTracer
    /\ handled = <<>>
    /\ newspan = <<>>
    /\ runs = <<>>
    /\ twin = [on |-> EmptyDict, off |-> EmptyDict, sent_on |-> <<>>, sent_off |-> <<>>, n |-> 0,
               call |-> [method |-> "", key |-> "", value |-> None, exc_on |-> "", exc_off |-> "",
                         before_on |-> EmptyDict, before_off |-> EmptyDict, sent_off |-> 0],
               log |-> <<>>]

NextTags ==
    \/ \E key \in TwinKeys, value \in TwinValues, update_raises \in BOOLEAN :
          twin_set_tag(key, value, update_raises)
    \/ \E key \in TwinKeys, value \in TwinValues, update_raises \in BOOLEAN :
          twin_set_content_tag(key, value, update_raises)

SpecTags == InitTags /\ [][NextTags]_vars

\* ------------------------------------- SpecHandle: handle on a drawn cache

\* A span cache and a component type are drawn, and handle runs on them once.
\* handled holds the cache, the component type, whether a backend update was
\* made to raise, and what handle did: its backend calls and its exception.

\* marks a key left out of a drawn meta dict
Absent == [t |-> "absent"]
\* the meta dict of a reply: the keys among usage, model and
\* completion_start_time that are not left out
MetaOf(usage, model, completion_start_time) ==
    Dict(SelectSeq(<<<<"usage", usage>>, <<"model", model>>,
                     <<"completion_start_time", completion_start_time>>>>,
                   LAMBDA item : item[2] # Absent))

HandleMetas ==
    { MetaOf(usage, model, completion_start_time) :
        usage \in {Absent, Dict(<<>>), Dict(<<<<"total_tokens", IntV(42)>>>>)},
        model \in {Absent, Str("gpt-x")},
        completion_start_time \in {Absent, None, IntV(5)} \cup {Str(s) : s \in IsoStrings} }

\* the caches handle is run on: the output of a chat generator, the output of
\* a generator, the input of a ToolInvoker, the input of a pipeline, nothing
HandleCaches ==
    { DictSet(EmptyDict, _COMPONENT_OUTPUT_KEY, Dict(<<<<"replies", List(<<ChatMessage(meta, <<>>)>>)>>>>)) :
        meta \in HandleMetas }
    \cup
    { DictSet(EmptyDict, _COMPONENT_OUTPUT_KEY, Dict(<<<<"meta", List(<<meta>>)>>>>)) :
        meta \in { MetaOf(Absent, Absent, Absent),
                   MetaOf(Dict(<<<<"total_tokens", IntV(42)>>>>), Str("gpt-x"), Absent) } }
    \cup
    { DictSet(DictSet(EmptyDict, _COMPONENT_NAME_KEY, Str("tools")), _COMPONENT_INPUT_KEY,
              Dict(<<<<"messages", List(<<ChatMessage(Dict(<<>>), <<"search", "lookup">>),
                                           ChatMessage(Dict(<<>>), <<"search">>)>>)>>>>)),
      DictSet(EmptyDict, _COMPONENT_INPUT_KEY, InputMessages),
      DictSet(EmptyDict, _PIPELINE_INPUT_KEY, PipelineData),
      EmptyDict }

\* the message lists of a ToolInvoker input: the same tool calls in several
\* orders, one call, three calls of one tool, a message that is no ChatMessage,
\* a message without tool calls, no message
ToolMessages ==
    { <<ChatMessage(Dict(<<>>), <<"search", "search">>), ChatMessage(Dict(<<>>), <<"lookup">>)>>,
      <<ChatMessage(Dict(<<>>), <<"search">>), ChatMessage(Dict(<<>>), <<"lookup">>),
        ChatMessage(Dict(<<>>), <<"search">>)>>,
      <<ChatMessage(Dict(<<>>), <<"lookup">>), ChatMessage(Dict(<<>>), <<"search", "search">>)>>,
      <<ChatMessage(Dict(<<>>), <<"lookup", "lookup", "lookup">>)>>,
      <<Str("hello"), ChatMessage(Dict(<<>>), <<"lookup">>)>>,
      <<ChatMessage(Dict(<<>>), <<>>)>>,
      <<>> }

\* the caches of a ToolInvoker span: with and without the component name tag
ToolCaches ==
    { DictSet(IF name = Absent THEN EmptyDict ELSE DictSet(EmptyDict, _COMPONENT_NAME_KEY, name),
              _COMPONENT_INPUT_KEY, Dict(<<<<"messages", List(messages)>>>>)) :
        name \in {Absent, Str("tools")}, messages \in ToolMessages }

HandleTypes == {Str("OpenAIChatGenerator"), Str("OpenAIGenerator"), Str("ToolInvoker"), None}

\* span_handler.handle(span, component_type) on the drawn cache; fail_at makes
\* the fail_at-th backend update of the call raise
run_handle(fail_at) ==
    /\ handled.phase = "drawn"
    /\ handled' = [handled EXCEPT !.phase = "handled", !.fail_at = fail_at,
                                  !.result = handle(handled.data, handled.component_type, fail_at)]
    /\ UNCHANGED <<_context, config, tracer, spans, frames, events, last, ncalls, twin, newspan, runs>>

InitHandle ==
    /\ IdleTracer
    /\ twin = <<>>
    /\ newspan = <<>>
    /\ runs = <<>>
    /\ \E data \in HandleCaches \cup ToolCaches, component_type \in HandleTypes :
          handled = [phase |-> "drawn", data |-> data, component_type |-> component_type,
                     fail_at |-> 0, result |-> NoCalls]

NextHandle == \E fail_at \in 0..1 : run_handle(fail_at)

SpecHandle == InitHandle /\ [][NextHandle]_vars

\* ------------------------- SpecScopes: any parent, exits in any order

\* Trace scopes on one tracer, entered with or without an explicit parent_span
\* and exited in any order, as when generators or concurrent executions that
\* share the tracer suspend and resume their scopes.

MaxScopes == 3

ScopeTags == { <<>>, <<<<_PIPELINE_INPUT_KEY, PipelineData>>>> }

InitScopes ==
    /\ IdleTracer
    /\ twin = <<>>
    /\ handled = <<>>
    /\ newspan = <<>>
    /\ runs = <<>>

NextScopes ==
    \/ /\ ncalls + PublicFlushes < MaxScopes
       /\ \E tags \in ScopeTags, parent_span \in 0..Len(spans), fail_at \in 0..1 :
             trace_enter(Str("haystack.component.run"), tags, parent_span, FALSE, fail_at)
    \/ \E i \in DOMAIN frames, body \in {"return", "raise"} :
          trace_exit(i, body, 0, FALSE, FALSE)
    \/ ncalls + PublicFlushes < MaxScopes /\ flush(FALSE)

SpecScopes == InitScopes /\ [][NextScopes]_vars

\* ------------------------------- SpecCreate: create_span on a drawn context

\* A SpanContext is drawn, the ambient correlation context is set by the
\* caller at any time, and create_span runs once.  newspan holds the SpanContext,
\* the ambient context at the time of the call and what create_span returned.

SpanContexts ==
    [name : {Str("llm")}, operation_name : {Str("haystack.component.run")},
     component_type : {None, Str("OpenAIChatGenerator"), Str("ToolInvoker")},
     tags : {<<>>}, parent_span : {0, 1},
     trace_name : {Str("Haystack"), Str("Chat")}, public : BOOLEAN]

\* tracing_context_var.set(ctx), done by the application around its requests
set_tracing_context(ctx) ==
    /\ tracing_context_var # ctx
    /\ tracing_context_var' = ctx
    /\ UNCHANGED <<_context, _name, _public, enforce_flush, content_tracing, tracer,
                   spans, frames, events, last, ncalls, probes>>

\* span_handler.create_span(context) on the drawn SpanContext
run_create_span ==
    /\ newspan.phase = "drawn"
    /\ newspan' = [newspan EXCEPT !.phase = "newspan", !.ambient = tracing_context_var,
                            !.result = create_span(newspan.context, tracer, tracing_context_var)]
    /\ UNCHANGED <<_context, config, tracer, spans, frames, events, last, ncalls,
                   twin, handled, runs>>

InitCreate ==
    /\ _context = <<>>
    /\ _name = Str("Haystack")
    /\ _public = FALSE
    /\ enforce_flush = TRUE
    /\ tracer = TRUE
    /\ content_tracing = TRUE
    /\ tracing_context_var = EmptyDict
    /\ spans = <<>>
    /\ frames = <<>>
    /\ events = <<>>
    /\ last = Ended("none", 0, "", "", <<>>, <<>>, <<>>)
    /\ ncalls = 0
    /\ twin = <<>> /\ handled = <<>> /\ runs = <<>>
    /\ \E context \in SpanContexts :
          newspan = [phase |-> "drawn", context |-> context, ambient |-> EmptyDict,
                  result |-> [exc |-> "", ev |-> "", on |-> 0, args |-> EmptyDict]]

NextCreate ==
    \/ \E ctx \in TracingContexts : set_tracing_context(ctx)
    \/ run_create_span

SpecCreate == InitCreate /\ [][NextCreate]_vars

\* ------------------- SpecPrivacy: two runs that differ in content values

\* One span lives twice, in run a and in run b: the same set_tag calls, the
\* same set_content_tag calls but for the values passed, then handle at the
\* scope exit.  runs holds for each run the cache and the backend calls made,
\* the number of tag calls, the backend calls made inside set_content_tag and
\* the keys under which the two runs were passed different content values.

PrivacyKeys == {_PIPELINE_INPUT_KEY, _PIPELINE_OUTPUT_KEY, _COMPONENT_OUTPUT_KEY}
PrivacyValues == {PipelineData, ChatOutput, Str("secret")}

pair_set_tag(key, value, update_raises) ==
    /\ runs.phase = "tags" /\ runs.n < MaxTwinOps
    /\ LET a == set_tag(runs.a.data, key, value, update_raises)
           b == set_tag(runs.b.data, key, value, update_raises)
       IN runs' = [runs EXCEPT !.a = [data |-> a.data, sent |-> runs.a.sent \o a.calls],
                               !.b = [data |-> b.data, sent |-> runs.b.sent \o b.calls],
                               !.n = runs.n + 1]
    /\ UNCHANGED <<_context, config, tracer, spans, frames, events, last, ncalls,
                   twin, handled, newspan>>

pair_set_content_tag(key, value_a, value_b, update_raises) ==
    /\ runs.phase = "tags" /\ runs.n < MaxTwinOps
    /\ LET a == set_content_tag(runs.a.data, key, value_a, content_tracing, update_raises)
           b == set_content_tag(runs.b.data, key, value_b, content_tracing, update_raises)
       IN runs' = [runs EXCEPT !.a = [data |-> a.data, sent |-> runs.a.sent \o a.calls],
                               !.b = [data |-> b.data, sent |-> runs.b.sent \o b.calls],
                               !.n = runs.n + 1,
                               !.content_sent = runs.content_sent + Len(a.calls) + Len(b.calls),
                               !.differ = IF value_a # value_b THEN runs.differ \cup {key}
                                          ELSE runs.differ]
    /\ UNCHANGED <<_context, config, tracer, spans, frames, events, last, ncalls,
                   twin, handled, newspan>>

\* the scope exit of the span: span_handler.handle(span, component_type)
pair_handle(component_type, fail_at) ==
    /\ runs.phase = "tags"
    /\ LET a == handle(runs.a.data, component_type, fail_at)
           b == handle(runs.b.data, component_type, fail_at)
       IN runs' = [runs EXCEPT !.a = [data |-> runs.a.data, sent |-> runs.a.sent \o a.calls],
                               !.b = [data |-> runs.b.data, sent |-> runs.b.sent \o b.calls],
                               !.phase = "handled"]
    /\ UNCHANGED <<_context, config, tracer, spans, frames, events, last, ncalls,
                   twin, handled, newspan>>

InitPrivacy ==
    /\ _context = <<>>
    /\ _name = Str("Haystack")
    /\ _public = FALSE
    /\ enforce_flush = TRUE
    /\ tracer = TRUE
    /\ content_tracing \in BOOLEAN
    /\ tracing_context_var = EmptyDict
    /\ spans = <<>>
    /\ frames = <<>>
    /\ events = <<>>
    /\ last = Ended("none", 0, "", "", <<>>, <<>>, <<>>)
    /\ ncalls = 0
    /\ twin = <<>> /\ handled = <<>> /\ newspan = <<>>
    /\ runs = [a |-> [data |-> EmptyDict, sent |-> <<>>], b |-> [data |-> EmptyDict, sent |-> <<>>],
               n |-> 0, content_sent |-> 0, differ |-> {}, phase |-> "tags"]

NextPrivacy ==
    \/ \E key \in PrivacyKeys, value \in PrivacyValues, update_raises \in BOOLEAN :
          pair_set_tag(key, value, update_raises)
    \/ \E key \in PrivacyKeys, value_a, value_b \in PrivacyValues, update_raises \in BOOLEAN :
          pair_set_content_tag(key, value_a, value_b, update_raises)
    \/ \E component_type \in {None, Str("OpenAIChatGenerator")}, fail_at \in 0..1 :
          pair_handle(component_type, fail_at)

SpecPrivacy == InitPrivacy /\ [][NextPrivacy]_vars

\* ------------------------------------------------------------------ claims

CreateEvs == {"trace", "span", "generation"}
ExitEvs == {"handle", "update", "end", "pop", "flush"}

\* the backend call that created span s
CreationOf(s) == events[CHOOSE i \in DOMAIN events : events[i].span = s /\ events[i].ev \in CreateEvs]
\* where the exit of span s starts in events (0: it has not exited)
ExitStart(s) ==
    IF \E i \in DOMAIN events : events[i].span = s /\ events[i].ev = "handle"
    THEN CHOOSE i \in DOMAIN events : events[i].span = s /\ events[i].ev = "handle"
    ELSE 0
\* the places of the exit-phase events of span s
ExitPlaces(s) ==
    {i \in DOMAIN events : /\ events[i].span = s /\ events[i].ev \in ExitEvs
                           /\ ExitStart(s) # 0 /\ i >= ExitStart(s)}
\* a trace invocation has just handed control back
Exited == last.op = "exit"
Entered == last.op = "enter"

\* C1: when a trace scope whose body was entered exits, by return or by the
\* body raising, the stack is again the sequence it was just before the trace
\* call, and an exception raised by the body is the one the caller receives
C1_ScopeRestoresStack ==
    Exited => /\ _context = last.before
              /\ (last.body = "raise" => last.outcome = "BodyError")

\* C2: a span on the stack belongs to a trace invocation that has not yet
\* handed control back for good: once an invocation has returned or raised, on
\* any path, its span is off the stack, and with no invocation outstanding the
\* stack is empty
C2_StackHoldsOnlyOutstanding ==
    \A k \in DOMAIN _context : \E i \in DOMAIN frames : frames[i].span = _context[k]

\* C3: when handle or end() raised during a scope exit, the caller sees only
\* what the body did (nothing after a return, the body's exception after a
\* raise), and the span is off the stack
C3_CleanupErrorSwallowed ==
    (Exited /\ last.cleanup # <<>>) =>
        /\ last.outcome = (IF last.body = "raise" THEN "BodyError" ELSE "")
        /\ \A k \in DOMAIN _context : _context[k] # last.span

\* C4: a trace invocation raises only because the body raised, the
\* SpanContext was invalid, or create_span found no backend client; no failure
\* of a backend call does
C4_RaisesOnlyForThreeReasons ==
    last.outcome # "" =>
        \/ Exited /\ last.body = "raise" /\ last.outcome = "BodyError"
        \/ Entered /\ last.outcome = "ValueError"
        \/ Entered /\ last.outcome = "RuntimeError"

\* the run so far is a chain of ncalls nested scopes, all exited: every
\* invocation entered its body, and each was made inside the one before
ChainDone ==
    /\ ncalls >= 1 /\ frames = <<>>
    /\ Cardinality({i \in DOMAIN events : events[i].ev = "handle"}) = ncalls
    /\ \A i, j \in DOMAIN events :
          (events[i].ev \in CreateEvs /\ events[j].ev = "handle") => i < j

\* C5: a chain of n nested scopes from an empty stack makes n backend create
\* calls, one trace and n-1 spans or generations; the exit events of a scope
\* all come before those of the scope around it; the stack ends empty
C5_NestedChain ==
    ChainDone =>
        /\ Cardinality({i \in DOMAIN events : events[i].ev \in CreateEvs}) = ncalls
        /\ Cardinality({i \in DOMAIN events : events[i].ev = "trace"}) = 1
        /\ Cardinality({i \in DOMAIN events : events[i].ev \in {"span", "generation"}}) = ncalls - 1
        /\ \A outer, inner \in DOMAIN spans :
              outer < inner => \A i \in ExitPlaces(inner), j \in ExitPlaces(outer) : i < j
        /\ \A s \in DOMAIN spans : ExitPlaces(s) # {}
        /\ _context = <<>>
C5_Witness ==
    /\ ChainDone /\ ncalls = 2
    /\ \E i \in DOMAIN events : events[i].ev = "end" /\ events[i].span = 2
    /\ \E i \in DOMAIN events : events[i].ev = "flush" /\ events[i].span = 1

\* C6: create_span makes a root trace named trace_name whenever the context
\* has no parent, whatever the component type; under a parent it makes a
\* generation for a component type of the generator registry and a span for
\* any other
C6_KindFromContext ==
    (Entered /\ last.span # 0) =>
        LET c == last.context
            made == CreationOf(last.span)
        IN IF c.parent_span = 0
           THEN made.ev = "trace" /\ made.args.on = 0 /\ made.args.kw.name = c.trace_name
           ELSE /\ made.args.on = c.parent_span
                /\ made.args.kw = [name |-> c.name]
                /\ made.ev = IF c.component_type.t = "str"
                                /\ c.component_type.s \in _ALL_SUPPORTED_GENERATORS
                             THEN "generation" ELSE "span"
C6_Witness ==
    /\ Entered /\ last.span # 0
    /\ last.context.parent_span = 0
    /\ last.context.component_type = Str("OpenAIChatGenerator")
    /\ spans[last.span].kind = "trace"

\* C8: a trace call that finds the handler without a backend client raises the
\* configuration error (unless the context was invalid), and the call leaves
\* the stack, the spans and the backend untouched: no span is made or pushed
\* and handle, end() and flush() are not called
C8_ConfigErrorLeavesNoTrace ==
    [][ (ncalls' = ncalls + 1 /\ ~tracer) =>
            /\ last'.op = "enter" /\ last'.span = 0
            /\ last'.outcome \in {"RuntimeError", "ValueError"}
            /\ (SpanContextError(last'.context) = "" => last'.outcome = "RuntimeError")
            /\ UNCHANGED <<_context, spans, frames, events>> ]_vars
C8_Witness ==
    /\ Entered /\ last.outcome = "RuntimeError"
    /\ _context # <<>> /\ frames # <<>>

\* C9: building a SpanContext fails with a ValueError exactly when name,
\* operation_name or trace_name is empty; a trace call with an empty operation
\* name or an empty component-name tag so fails before a span is made or pushed
C9_ValidationFailsFast ==
    [][ ncalls' = ncalls + 1 =>
            LET c == last'.context
                empty == ~Truthy(c.name) \/ ~Truthy(c.operation_name) \/ ~Truthy(c.trace_name)
            IN /\ (last'.outcome = "ValueError") <=> empty
               /\ (c.operation_name = Str("")
                   \/ TagsGet(c.tags, _COMPONENT_NAME_KEY, None) = Str("")) =>
                      /\ last'.outcome = "ValueError" /\ last'.span = 0
                      /\ UNCHANGED <<_context, spans, frames, events>> ]_vars
C9_Witness ==
    /\ Entered /\ last.outcome = "ValueError"
    /\ last.context.operation_name # Str("") /\ last.context.trace_name # Str("")
    /\ TagsGet(last.context.tags, _COMPONENT_NAME_KEY, None) = Str("")
    /\ _context # <<>>

\* C7 as stated: after any calls of set_tag and set_content_tag the cache is
\* the same with content tracing enabled and disabled, and a set_content_tag
\* call leaves the raw value under its key in the cache under either setting
C7_CacheSameUnderFlag ==
    /\ twin.on = twin.off
    /\ twin.call.method = "set_content_tag" =>
          /\ twin.call.key \in DOMAIN twin.on /\ twin.on[twin.call.key] = twin.call.value
          /\ twin.call.key \in DOMAIN twin.off /\ twin.off[twin.call.key] = twin.call.value

\* C7 amended: set_tag writes the cache alike under either setting; with
\* content tracing disabled set_content_tag changes neither the cache nor the
\* backend; with it enabled a set_content_tag call that returns normally leaves
\* the raw value under its key, and one that raises leaves the cache as it was
C7_FlagGatesCache ==
    /\ twin.call.method = "set_content_tag" =>
          /\ twin.off = twin.call.before_off
          /\ Len(twin.sent_off) = twin.call.sent_off
          /\ twin.call.exc_off = ""
          /\ twin.call.exc_on = "" =>
                /\ twin.call.key \in DOMAIN twin.on
                /\ twin.on[twin.call.key] = twin.call.value
          /\ twin.call.exc_on # "" => twin.on = twin.call.before_on
    /\ twin.call.method = "set_tag" =>
          /\ twin.call.exc_on = twin.call.exc_off
          /\ twin.call.exc_on = "" =>
                /\ twin.on = DictSet(twin.call.before_on, twin.call.key, twin.call.value)
                /\ twin.off = DictSet(twin.call.before_off, twin.call.key, twin.call.value)
          /\ twin.call.exc_on # "" =>
                twin.on = twin.call.before_on /\ twin.off = twin.call.before_off
C7_Witness ==
    /\ twin.n = 2
    /\ twin.call.method = "set_content_tag" /\ twin.call.exc_on = ""
    /\ twin.call.key \in DOMAIN twin.on /\ twin.call.key \notin DOMAIN twin.off
    /\ twin.off # EmptyDict

\* handle has run on a chat generator span whose first cached reply carries
\* usage, model and a completion_start_time string, and the backend update
\* returned
FirstReplyMeta == handled.data[_COMPONENT_OUTPUT_KEY].d.replies.l[1].meta.d
ChatReplyHandled ==
    /\ handled.phase = "handled" /\ handled.fail_at = 0
    /\ InNames(handled.component_type, _SUPPORTED_CHAT_GENERATORS)
    /\ _COMPONENT_OUTPUT_KEY \in DOMAIN handled.data
    /\ "replies" \in DOMAIN handled.data[_COMPONENT_OUTPUT_KEY].d
    /\ {"usage", "model", "completion_start_time"} \subseteq DOMAIN FirstReplyMeta
    /\ Truthy(FirstReplyMeta.usage)
    /\ FirstReplyMeta.completion_start_time.t = "str"

\* C10: on such a span handle makes one backend update with the usage, the
\* model and the timestamp: the parsed datetime for a valid ISO-8601 string,
\* None for a string that cannot be parsed, and no exception leaves handle
C10_ChatTimestamp ==
    ChatReplyHandled =>
        LET parsed == fromisoformat(FirstReplyMeta.completion_start_time)
        IN /\ handled.result.exc = ""
           /\ handled.result.calls =
                <<Event("update", 0,
                        [usage |-> FirstReplyMeta.usage, model |-> FirstReplyMeta.model,
                         completion_start_time |-> IF parsed.exc = "" THEN parsed.v ELSE None],
                        FALSE)>>

\* handle has run on a ToolInvoker span and every backend update returned
ToolInvokerHandled ==
    /\ handled.phase = "handled" /\ handled.fail_at = 0
    /\ handled.component_type = Str("ToolInvoker")
\* the tool calls in the cached component-input messages, message by message
CachedToolCalls ==
    IF _COMPONENT_INPUT_KEY \in DOMAIN handled.data
    THEN ToolNamesOf(handled.data[_COMPONENT_INPUT_KEY].d.messages.l)
    ELSE <<>>
CallsOf(tool) == Cardinality({i \in DOMAIN CachedToolCalls : CachedToolCalls[i] = tool})
\* 'tool' for one call, 'tool (xN)' for N > 1 calls
ToolLabel(tool) ==
    IF CallsOf(tool) = 1 THEN "'" \o tool \o "'"
    ELSE "'" \o tool \o " (x" \o ToString(CallsOf(tool)) \o ")'"
\* the labels of the called tools among tools, in that order, joined by commas
RECURSIVE ToolLabels(_)
ToolLabels(tools) ==
    IF tools = <<>> THEN ""
    ELSE LET rest == ToolLabels(Tail(tools))
         IN IF CallsOf(tools[1]) = 0 THEN rest
            ELSE ToolLabel(tools[1]) \o (IF rest = "" THEN "" ELSE ", " \o rest)
\* the backend updates of handle that set the name
RenameCalls == SelectSeq(handled.result.calls, LAMBDA c : "name" \in DOMAIN c.args)

\* C11: handle on a ToolInvoker span renames the backend span exactly when the
\* cached input messages hold a tool call; the name is the cached component
\* name, or ToolInvoker without one, then " - " and the list of one label per
\* distinct tool in sorted order, whatever the order of the calls
C11_ToolInvokerRename ==
    ToolInvokerHandled =>
        /\ handled.result.exc = ""
        /\ CachedToolCalls = <<>> => RenameCalls = <<>>
        /\ CachedToolCalls # <<>> =>
              RenameCalls =
                <<Event("update", 0,
                        [name |-> Str((IF _COMPONENT_NAME_KEY \in DOMAIN handled.data
                                       THEN handled.data[_COMPONENT_NAME_KEY].s ELSE "ToolInvoker")
                                      \o " - [" \o ToolLabels(<<"lookup", "search">>) \o "]")],
                        FALSE)>>
        /\ (CallsOf("search") = 2 /\ CallsOf("lookup") = 1
            /\ _COMPONENT_NAME_KEY \in DOMAIN handled.data) =>
              RenameCalls[1].args.name = Str("tools - ['lookup', 'search (x2)']")
C11_Witness ==
    /\ ToolInvokerHandled
    /\ CachedToolCalls = <<"search", "search", "lookup">>
    /\ RenameCalls # <<>>
    /\ RenameCalls[1].args.name = Str("tools - ['lookup', 'search (x2)']")

\* the calls so far that had key and returned normally on the span with
\* content tracing enabled (on) or disabled (off)
ReturnedOn(key) == SelectSeq(twin.log, LAMBDA c : c.key = key /\ c.exc_on = "")
ReturnedOff(key) == SelectSeq(twin.log, LAMBDA c : c.key = key /\ c.exc_off = "")
\* those among them that record: every set_tag, and set_content_tag while
\* content tracing is enabled
RecordedOff(key) == SelectSeq(ReturnedOff(key), LAMBDA c : c.method = "set_tag")
\* cache holds under key the value of the last of calls, and nothing without a call
HoldsLatest(cache, key, calls) ==
    IF calls = <<>> THEN key \notin DOMAIN cache
    ELSE key \in DOMAIN cache /\ cache[key] = calls[Len(calls)].value
\* the latest call repeats the one before it, and both returned normally
CalledTwice ==
    /\ Len(twin.log) >= 2
    /\ LET a == twin.log[Len(twin.log) - 1]
           b == twin.log[Len(twin.log)]
       IN /\ a.method = b.method /\ a.key = b.key /\ a.value = b.value
          /\ a.exc_on = "" /\ b.exc_on = "" /\ a.exc_off = "" /\ b.exc_off = ""

\* C12 as stated: after any calls of set_tag and set_content_tag the cache
\* holds for each key the raw value of the latest call with that key, under
\* either setting of content tracing, and a call made twice leaves the cache
\* as the first one left it
C12_CacheHoldsLatest ==
    /\ \A key \in TwinKeys :
          /\ HoldsLatest(twin.on, key, ReturnedOn(key))
          /\ HoldsLatest(twin.off, key, ReturnedOff(key))
    /\ CalledTwice => twin.on = twin.call.before_on /\ twin.off = twin.call.before_off

\* C12 amended: the cache holds for each key the raw value of the latest call
\* with that key that records, which is every set_tag that returns and every
\* set_content_tag that returns while content tracing is enabled; a
\* set_content_tag made while it is disabled leaves the earlier value; a call
\* made twice leaves the cache as the first one left it
C12_CacheHoldsLatestRecorded ==
    /\ \A key \in TwinKeys :
          /\ HoldsLatest(twin.on, key, ReturnedOn(key))
          /\ HoldsLatest(twin.off, key, RecordedOff(key))
    /\ DOMAIN twin.on \subseteq TwinKeys /\ DOMAIN twin.off \subseteq TwinKeys
    /\ CalledTwice => twin.on = twin.call.before_on /\ twin.off = twin.call.before_off
C12_Witness ==
    /\ Len(twin.log) = 2
    /\ twin.log[1].key = twin.log[2].key /\ twin.log[1].value # twin.log[2].value
    /\ twin.log[1].method = "set_tag" /\ twin.log[2].method = "set_content_tag"
    /\ twin.log[1].exc_on = "" /\ twin.log[2].exc_on = ""
    /\ twin.on[twin.call.key] = twin.log[2].value
    /\ twin.off[twin.call.key] = twin.log[1].value

\* how many times the backend end() was invoked on span s
EndCalls(s) == Cardinality({i \in DOMAIN events : events[i].ev = "end" /\ events[i].span = s})

\* C13: once the scope of a span has exited, however the body ended and whether
\* or not handle raised, end() was invoked exactly once on a nested span or a
\* generation and never on a root trace
C13_EndExactlyOnce ==
    \A s \in DOMAIN spans :
        ExitStart(s) # 0 =>
            EndCalls(s) = (IF spans[s].kind \in {"span", "generation"} THEN 1 ELSE 0)

\* current_span() returns the top of the stack, or none when it is empty
CurrentIsTop == current_span = (IF Len(_context) = 0 THEN 0 ELSE _context[Len(_context)])

\* C14 as stated: for every adjacent pair of stack elements the lower one is
\* the parent under which the upper one was created, whatever parent_span the
\* trace calls passed, and current_span() returns the top or none
C14_StackParents ==
    /\ \A k \in 2..Len(_context) : spans[_context[k]].parent = _context[k - 1]
    /\ CurrentIsTop

\* C14 amended: for every adjacent pair of stack elements whose upper one was
\* created by a call without a parent_span, or with the element below given as
\* parent_span, the lower one is the parent of the upper one; a span created
\* under another explicit parent_span lies above a span that is not its
\* parent; current_span() returns the top or none
C14_StackParentsUnlessGiven ==
    /\ \A k \in 2..Len(_context) :
          LET upper == spans[_context[k]]
          IN IF upper.given \in {0, _context[k - 1]}
             THEN upper.parent = _context[k - 1]
             ELSE upper.parent = upper.given /\ upper.parent # _context[k - 1]
    /\ CurrentIsTop
C14_Witness ==
    /\ _context = <<1, 2, 3>>
    /\ spans[2].given = 0 /\ spans[2].parent = 1
    /\ spans[3].given = 1 /\ spans[3].parent = 1

\* the scopes that were active when the latest trace call was made, oldest
\* first: the suspended invocations other than the one the call started
ActiveAtCall == SelectSeq(frames, LAMBDA f : f.span # last.span)
\* the stack top when the latest trace call was made (0: the stack was empty)
TopAtCall == IF last.before = <<>> THEN 0 ELSE last.before[Len(last.before)]

\* C15: the span a trace call creates has as parent the parent_span given, or
\* without one the stack top at the call; it is a root trace exactly when no
\* parent_span was given and the stack was empty; and a call made inside an
\* active scope without a parent_span creates its span under the span of the
\* innermost active scope
C15_ParentResolution ==
    (Entered /\ last.span # 0) =>
        LET made == spans[last.span]
        IN /\ made.parent = (IF made.given # 0 THEN made.given ELSE TopAtCall)
           /\ (made.kind = "trace") <=> (made.given = 0 /\ last.before = <<>>)
           /\ (made.given = 0 /\ ActiveAtCall # <<>>) =>
                 made.parent = ActiveAtCall[Len(ActiveAtCall)].span

\* the place of an exit event in the order handle, its updates, end, pop, flush
ExitRank(ev) ==
    CASE ev = "handle" -> 1 [] ev = "update" -> 2 [] ev = "end" -> 3
      [] ev = "pop" -> 4 [] ev = "flush" -> 5
\* how many events ev the exit of span s made
ExitCount(s, ev) == Cardinality({i \in ExitPlaces(s) : events[i].ev = ev})

\* C16: the exit of every scope runs handle exactly once, then end() where it
\* is invoked, then the pop where the span is popped, then the flush; with
\* enforce_flush the exit calls flush exactly once, however the body ended and
\* whether or not handle or end() raised, and without it trace never calls flush
C16_ExitOrder ==
    \A s \in DOMAIN spans :
        ExitStart(s) # 0 =>
            /\ ExitCount(s, "handle") = 1
            /\ ExitCount(s, "end") <= 1 /\ ExitCount(s, "pop") <= 1
            /\ ExitCount(s, "flush") = (IF enforce_flush THEN 1 ELSE 0)
            /\ \A i, j \in ExitPlaces(s) :
                  ExitRank(events[i].ev) < ExitRank(events[j].ev) => i < j
C16_Witness ==
    /\ Exited /\ enforce_flush /\ last.body = "raise" /\ last.cleanup = <<"EndError">>
    /\ ExitCount(last.span, "end") = 1 /\ ExitCount(last.span, "pop") = 1
    /\ ExitCount(last.span, "flush") = 1
    /\ \E s \in DOMAIN spans : s # last.span /\ ExitStart(s) # 0 /\ ExitCount(s, "update") = 1

\* C17: a scope exit pops the stack exactly when its top is the span of the
\* exiting scope and otherwise leaves the stack as it is, so every span of
\* another scope stays where it was, in whatever order the scopes exit
C17_PopsOnlyOwnSpan ==
    [][ Len(frames') < Len(frames) =>
            LET own == last'.span
            IN /\ _context' = (IF _context # <<>> /\ _context[Len(_context)] = own
                               THEN SubSeq(_context, 1, Len(_context) - 1)
                               ELSE _context)
               /\ \A k \in DOMAIN _context :
                     _context[k] # own => (k \in DOMAIN _context' /\ _context'[k] = _context[k]) ]_vars
C17_Witness ==
    /\ Exited
    /\ \E k \in DOMAIN _context : _context[k] = last.span
    /\ _context[Len(_context)] # last.span
    /\ \E i \in DOMAIN frames : frames[i].span = _context[Len(_context)]

\* the ambient value of a field at the time of the create_span call, none
\* when the ambient context did not carry it
AmbientAtCall(field) == IF field \in DOMAIN newspan.ambient THEN newspan.ambient[field] ELSE None

\* C18: a root trace is created with the trace name, the public flag and the
\* five ambient values of the time of the call, an absent one as none; a
\* nested span or generation is created with its name only, the same for
\* every ambient context
C18_AmbientOnlyForRoot ==
    newspan.phase = "newspan" =>
        IF newspan.context.parent_span = 0
        THEN /\ newspan.result.ev = "trace"
             /\ newspan.result.args =
                  [name |-> newspan.context.trace_name, public |-> newspan.context.public,
                   id |-> AmbientAtCall("trace_id"), user_id |-> AmbientAtCall("user_id"),
                   session_id |-> AmbientAtCall("session_id"), tags |-> AmbientAtCall("tags"),
                   version |-> AmbientAtCall("version")]
        ELSE /\ newspan.result.ev \in {"span", "generation"}
             /\ newspan.result.args = [name |-> newspan.context.name]
             /\ \A ctx \in TracingContexts : create_span(newspan.context, tracer, ctx) = newspan.result
C18_Witness ==
    /\ newspan.phase = "newspan" /\ newspan.context.parent_span = 0
    /\ newspan.ambient = [session_id |-> Str("s-1")]
    /\ newspan.result.args.session_id = Str("s-1") /\ newspan.result.args.id = None
    /\ tracing_context_var # newspan.ambient

\* C19: whatever the component type and the content of the cache, and with
\* every backend update returning, handle returns normally: no exception
\* leaves it
C19_HandleNeverRaises ==
    (handled.phase = "handled" /\ handled.fail_at = 0) => handled.result.exc = ""

\* C20: while content tracing is disabled set_content_tag makes no backend
\* call, and two runs of a span that differ only in the values passed to
\* set_content_tag make the same backend calls up to and including those of
\* handle at the scope exit: no content value is forwarded
C20_DisabledContentNeverSent ==
    ~content_tracing =>
        /\ runs.content_sent = 0
        /\ runs.a.sent = runs.b.sent
C20_Witness ==
    /\ ~content_tracing /\ runs.phase = "handled"
    /\ _PIPELINE_INPUT_KEY \in runs.differ
    /\ \E i \in DOMAIN runs.a.sent :
          "input" \in DOMAIN runs.a.sent[i].args /\ ~runs.a.sent[i].raised
====
